---- MODULE Spec2Model ----
(***************************************************************************)
(* Wa-Tor predator/prey simulation (main.go).                              *)
(*                                                                         *)
(* The model keeps Go's pointer structure: a grid cell holds a reference   *)
(* (an address of the heap) or Nil, and the creatures live in the heap, so *)
(* that the in-place updates made through *Creature and the sharing of a   *)
(* creature between the old and the new grid are visible.                  *)
(***************************************************************************)
EXTENDS Integers, Sequences, FiniteSets, TLC

\* ------------------------------------------------------------------ bounds
MaxPop     == 2      \* requested creatures, sharks and fish together
MaxChronon == 2      \* chronons run by main's loop (10000 in the program)

\* The inputs tried.  On a grid of size 1 a cell is its own neighbour, on a
\* grid of size 2 west and east (north and south) are one cell, from size 3 on
\* the four neighbours are distinct.
GridSizes     == {1, 2, 3}

BreedChoices  == {0, 2}     \* values tried for FishBreed and SharkBreed
StarveChoices == {1, 2}     \* values tried for Starve

\* --------------------------------------------------------------- data model
Empty == "Empty"
Fish  == "Fish"
Shark == "Shark"

Nil == 0                     \* the nil *Creature

\* Creature{...}: a composite literal; fields left out are zero.
Creature(species, energy, lastBreed) ==
    [Species |-> species, Age |-> 0, Energy |-> energy, LastBreed |-> lastBreed]

Cells(size) == (0 .. size - 1) \X (0 .. size - 1)

\* Go's % truncates towards zero: the result has the sign of the dividend.
GoMod(a, b) == IF a >= 0 THEN a % b ELSE -((-a) % b)

createWorld(size) ==
    [Grid       |-> [c \in Cells(size) |-> Nil],
     Size       |-> size,
     FishBreed  |-> 0,
     SharkBreed |-> 0,
     Starve     |-> 0]

\* No world: the value of newWorld outside processChronon.
NoWorld == createWorld(0)

\* &Creature{...}: the lowest address that is not in use.  An address is free
\* again once no grid refers to it (see MainLoop).
NewAddr(h) == CHOOSE a \in 1 .. (Cardinality(DOMAIN h) + 1) : a \notin DOMAIN h

Alloc(h, c) == [a \in DOMAIN h \cup {NewAddr(h)} |-> IF a \in DOMAIN h THEN h[a] ELSE c]

\* The creatures a grid refers to.
Refs(g) == {g[c] : c \in DOMAIN g} \ {Nil}

VARIABLES
    params,      \* the parameter struct of main
    world,       \* main's world; oldWorld while processChronon runs
    newWorld,    \* processChronon's newWorld
    heap,        \* address -> Creature
    pc,          \* "placeSharks", "placeFish", "main", "scan", "done", "extinct"
    i,           \* loop counter of initializeWorld
    x, y,        \* scan position of processChronon
    chronon,     \* main's loop counter
    heap0,       \* history: the heap when the running chronon began
    grid0,       \* history: oldWorld.Grid when the running chronon began
    clobbered,   \* history: some write of this chronon hit an occupied cell
    breeders,    \* history: the creatures that were due to breed and had a
                 \*          destination when this chronon processed them
    fasting      \* history: address -> processChronon calls the creature has
                 \*          been through since its creation or last meal

vars == <<params, world, newWorld, heap, pc, i, x, y, chronon,
          heap0, grid0, clobbered, breeders, fasting>>

\* The parameter structs tried.  A run that starts without fish never holds a
\* fish, and one that starts without sharks never holds a shark, so the
\* thresholds of an absent species are not varied.
Params ==
    {p \in [NumShark   : 0 .. MaxPop,
            NumFish    : 0 .. MaxPop,
            FishBreed  : BreedChoices,
            SharkBreed : BreedChoices,
            Starve     : StarveChoices,
            GridSize   : GridSizes] :
        /\ p.NumShark + p.NumFish <= MaxPop
        /\ p.NumFish = 0 => p.FishBreed = 0
        /\ p.NumShark = 0 => (p.SharkBreed = 0 /\ p.Starve = 1)}

\* main up to the call of initializeWorld: the world is created empty.
Init ==
    /\ params \in Params
    /\ world = createWorld(params.GridSize)
    /\ newWorld = NoWorld
    /\ heap = <<>>
    /\ pc = "placeSharks"
    /\ i = 0
    /\ x = 0
    /\ y = 0
    /\ chronon = 0
    /\ heap0 = <<>>
    /\ grid0 = world.Grid
    /\ clobbered = FALSE
    /\ breeders = {}
    /\ fasting = <<>>

\* ---------------------------------------------------------- initializeWorld
\* Variant of tryPlace: the drawn cell is taken whatever it holds.
tryPlaceAnyCell(w, h, pos, c) ==
    [world |-> [w EXCEPT !.Grid[pos] = NewAddr(h)], heap |-> Alloc(h, c), ok |-> TRUE]

\* One turn of the inner for-loop: draw a cell, place the creature if the cell
\* is nil; ok tells whether the loop breaks.
tryPlace(w, h, pos, c) ==
    IF w.Grid[pos] = Nil
    THEN [world |-> [w EXCEPT !.Grid[pos] = NewAddr(h)], heap |-> Alloc(h, c), ok |-> TRUE]
    ELSE [world |-> w, heap |-> h, ok |-> FALSE]

initUnchanged ==
    UNCHANGED <<params, newWorld, x, y, chronon, heap0, clobbered, breeders, fasting>>

PlaceShark ==
    /\ pc = "placeSharks"
    /\ i < params.NumShark
    /\ \E pos \in Cells(world.Size) :
         LET r == tryPlace(world, heap, pos, Creature(Shark, params.Starve, 0)) IN
         /\ world' = r.world
         /\ heap' = r.heap
         /\ i' = IF r.ok THEN i + 1 ELSE i
    /\ grid0' = world'.Grid
    /\ pc' = pc
    /\ initUnchanged

SharksPlaced ==
    /\ pc = "placeSharks"
    /\ i >= params.NumShark
    /\ pc' = "placeFish"
    /\ i' = 0
    /\ UNCHANGED <<world, heap, grid0>>
    /\ initUnchanged

PlaceFish ==
    /\ pc = "placeFish"
    /\ i < params.NumFish
    /\ \E pos \in Cells(world.Size) :
         LET r == tryPlace(world, heap, pos, Creature(Fish, 0, 0)) IN
         /\ world' = r.world
         /\ heap' = r.heap
         /\ i' = IF r.ok THEN i + 1 ELSE i
    /\ grid0' = world'.Grid
    /\ pc' = pc
    /\ initUnchanged

\* The fish loop ends; the world takes its thresholds from the parameters.
FishPlaced ==
    /\ pc = "placeFish"
    /\ i >= params.NumFish
    /\ world' = [world EXCEPT !.FishBreed = params.FishBreed,
                              !.SharkBreed = params.SharkBreed,
                              !.Starve = params.Starve]
    /\ pc' = "main"
    /\ i' = 0
    /\ UNCHANGED <<heap, grid0>>
    /\ initUnchanged

InitNext == PlaceShark \/ SharksPlaced \/ PlaceFish \/ FishPlaced

\* ---------------------------------------------------------- the transition
\* The memory processFish and processShark work on: the two worlds, the heap,
\* and the history of the chronon.
Mem(o, n, h, c) == [old |-> o, new |-> n, heap |-> h, clobbered |-> c]

\* Variant of getAdjacentPositions: west and north without "+ size".
getAdjacentPositionsNoWrap(px, py, size) ==
    << <<GoMod(px - 1, size), py>>,
       <<GoMod(px + 1, size), py>>,
       <<px, GoMod(py - 1, size)>>,
       <<px, GoMod(py + 1, size)>> >>

getAdjacentPositions(px, py, size) ==
    << <<GoMod(px - 1 + size, size), py>>,      \* West
       <<GoMod(px + 1, size), py>>,             \* East
       <<px, GoMod(py - 1 + size, size)>>,      \* North
       <<px, GoMod(py + 1, size)>> >>           \* South

\* Variant of setNew: the write goes to the grid that is being read.
setOld(m, pos, c) ==
    [m EXCEPT !.old.Grid[pos] = c,
              !.clobbered = @ \/ m.old.Grid[pos] # Nil]

\* newWorld.Grid[pos] = c; the history records a write onto an occupied cell.
setNew(m, pos, c) ==
    [m EXCEPT !.new.Grid[pos] = c,
              !.clobbered = @ \/ m.new.Grid[pos] # Nil]

\* Variant of emptyCells: the new grid is not looked at.
emptyCellsOldOnly(m, adjacent) ==
    SelectSeq(adjacent, LAMBDA pos : m.old.Grid[pos] = Nil)

\* The neighbours that are nil in the old and in the new grid.
emptyCells(m, adjacent) ==
    SelectSeq(adjacent, LAMBDA pos : m.old.Grid[pos] = Nil /\ m.new.Grid[pos] = Nil)

\* Variant of fishCells: the species of the old grid's creature is not looked at.
fishCellsAnySpecies(m, adjacent) ==
    SelectSeq(adjacent, LAMBDA pos : /\ m.old.Grid[pos] # Nil
                                     /\ m.new.Grid[pos] = Nil)

\* The neighbours that hold a fish in the old grid and are nil in the new grid.
fishCells(m, adjacent) ==
    SelectSeq(adjacent, LAMBDA pos : /\ m.old.Grid[pos] # Nil
                                     /\ m.heap[m.old.Grid[pos]].Species = Fish
                                     /\ m.new.Grid[pos] = Nil)

\* Variant of stay: the creature's LastBreed is reset as after a birth.
stayResets(m, pos, c) == [setNew(m, pos, c) EXCEPT !.heap[c].LastBreed = 0]

\* Variant of stay: the creature is not put anywhere.
stayDropped(m, pos, c) == m

\* len(cells) == 0: the creature is put at its own cell.
stay(m, pos, c) == setNew(m, pos, c)

\* Variant of canBreed: the threshold is not looked at.
canBreedAlways(c, threshold) == TRUE

\* c.LastBreed >= threshold
canBreed(c, threshold) == c.LastBreed >= threshold

\* Variant of moveOrBreed: the child goes to newPos and the parent stays.
moveOrBreedChildMoves(m, pos, c, newPos, threshold, child) ==
    IF canBreed(m.heap[c], threshold)
    THEN LET a  == NewAddr(m.heap)
             m1 == setNew([m EXCEPT !.heap = Alloc(m.heap, child)], newPos, a)
             m2 == setNew(m1, pos, c)
         IN  [m2 EXCEPT !.heap[c].LastBreed = 0]
    ELSE setNew(m, newPos, c)

\* Variant of moveOrBreed: the parent's LastBreed is not reset.
moveOrBreedNoReset(m, pos, c, newPos, threshold, child) ==
    IF canBreed(m.heap[c], threshold)
    THEN LET a  == NewAddr(m.heap)
             m1 == setNew([m EXCEPT !.heap = Alloc(m.heap, child)], pos, a)
         IN  setNew(m1, newPos, c)
    ELSE setNew(m, newPos, c)

\* The creature c of cell pos goes to newPos; if it can breed, a new creature
\* (the literal child) is put at pos and c.LastBreed is reset.
moveOrBreed(m, pos, c, newPos, threshold, child) ==
    IF canBreed(m.heap[c], threshold)
    THEN LET a  == NewAddr(m.heap)
             m1 == setNew([m EXCEPT !.heap = Alloc(m.heap, child)], pos, a)
             m2 == setNew(m1, newPos, c)
         IN  [m2 EXCEPT !.heap[c].LastBreed = 0]
    ELSE setNew(m, newPos, c)

\* Variant of processFish: the child of a fish is a shark.
processFishBearsShark(m, px, py, fish) ==
    LET adjacent == getAdjacentPositions(px, py, m.old.Size)
        cells    == emptyCells(m, adjacent)
    IN  IF Len(cells) = 0
        THEN {stay(m, <<px, py>>, fish)}
        ELSE {moveOrBreed(m, <<px, py>>, fish, cells[r + 1], m.old.FishBreed,
                          Creature(Shark, m.old.Starve, 0)) : r \in 0 .. Len(cells) - 1}

\* The outcomes of processFish, one for each value rand.Intn can return.
processFish(m, px, py, fish) ==
    LET adjacent == getAdjacentPositions(px, py, m.old.Size)
        cells    == emptyCells(m, adjacent)
    IN  IF Len(cells) = 0
        THEN {stay(m, <<px, py>>, fish)}
        ELSE {moveOrBreed(m, <<px, py>>, fish, cells[r + 1], m.old.FishBreed,
                          Creature(Fish, 0, 0)) : r \in 0 .. Len(cells) - 1}

\* Variant of starved: no shark starves.
starvedNever(c) == FALSE

\* Variant of starved: a shark with no energy left lives on.
starvedBelowZero(c) == c.Energy < 0

\* shark.Energy <= 0
starved(c) == c.Energy <= 0

\* Variant of eat: the meal adds Starve to the shark's energy.
eatAdds(m, pos, shark, newPos) ==
    LET m1 == [m EXCEPT !.heap[shark].Energy = @ + m.old.Starve]
    IN  moveOrBreed(m1, pos, shark, newPos, m.old.SharkBreed,
                    Creature(Shark, m.old.Starve, 0))

\* The shark moves onto a fish: its energy is restored, then it moves or breeds.
eat(m, pos, shark, newPos) ==
    LET m1 == [m EXCEPT !.heap[shark].Energy = m.old.Starve]
    IN  moveOrBreed(m1, pos, shark, newPos, m.old.SharkBreed,
                    Creature(Shark, m.old.Starve, 0))

\* The outcomes of processShark, one for each value rand.Intn can return.
processShark(m, px, py, shark) ==
    LET m1 == [m EXCEPT !.heap[shark].Energy = @ - 1] IN
    IF starved(m1.heap[shark])
    THEN {m1}
    ELSE LET adjacent == getAdjacentPositions(px, py, m.old.Size)
             prey     == fishCells(m1, adjacent)
             cells    == emptyCells(m1, adjacent)
         IN  IF Len(prey) > 0
             THEN {eat(m1, <<px, py>>, shark, prey[r + 1]) : r \in 0 .. Len(prey) - 1}
             ELSE IF Len(cells) = 0
             THEN {stay(m1, <<px, py>>, shark)}
             ELSE {moveOrBreed(m1, <<px, py>>, shark, cells[r + 1], m.old.SharkBreed,
                               Creature(Shark, m.old.Starve, 0)) : r \in 0 .. Len(cells) - 1}

\* Variant of grow: the age is incremented twice.
growTwice(m, c) == [m EXCEPT !.heap[c].Age = @ + 2, !.heap[c].LastBreed = @ + 1]

\* creature.Age++; creature.LastBreed++
grow(m, c) == [m EXCEPT !.heap[c].Age = @ + 1, !.heap[c].LastBreed = @ + 1]

Now == Mem(world, newWorld, heap, clobbered)

\* The position the loops reach from (px, py) with y++, and x++ at a row's end.
nextCell(w, px, py) == IF py + 1 < w.Size THEN <<px, py + 1>> ELSE <<px + 1, 0>>

\* The loops of countPopulation from position (px, py) on, with the counters
\* fish and sharks: a cell that is not nil counts as a fish if its species is
\* Fish, and as a shark otherwise.
RECURSIVE countFrom(_, _, _, _, _, _)
countFrom(w, h, px, py, fish, sharks) ==
    IF px >= w.Size THEN <<fish, sharks>>
    ELSE LET n == nextCell(w, px, py)
             c == w.Grid[<<px, py>>]
         IN  IF c = Nil THEN countFrom(w, h, n[1], n[2], fish, sharks)
             ELSE IF h[c].Species = Fish THEN countFrom(w, h, n[1], n[2], fish + 1, sharks)
             ELSE countFrom(w, h, n[1], n[2], fish, sharks + 1)

\* Variant of countPopulation: both loops stop one short of Size.
countPopulationOneShort(w, h) == countFrom([w EXCEPT !.Size = @ - 1], h, 0, 0, 0, 0)

countPopulation(w, h) == countFrom(w, h, 0, 0, 0, 0)

\* "if creature == nil { continue }": from (px, py) on, the first position
\* whose cell of the old grid is not nil; x = Size when the loops end.
RECURSIVE skipNil(_, _, _)
skipNil(w, px, py) ==
    IF px >= w.Size THEN <<px, 0>>
    ELSE IF w.Grid[<<px, py>>] # Nil THEN <<px, py>>
    ELSE LET n == nextCell(w, px, py) IN skipNil(w, n[1], n[2])

\* The loops are at position p of the old world w.
at(w, p) ==
    /\ x' = p[1]
    /\ y' = p[2]
    /\ pc' = IF p[1] < w.Size THEN "scan" ELSE "done"

\* The memory m is what the loop body leaves; the loops move on to the next
\* cell that holds a creature.
Commit(m) ==
    /\ world' = m.old
    /\ newWorld' = m.new
    /\ heap' = m.heap
    /\ clobbered' = m.clobbered
    /\ LET n == nextCell(m.old, x, y) IN at(m.old, skipNil(m.old, n[1], n[2]))
    /\ UNCHANGED <<params, i, chronon, heap0, grid0, fasting>>

\* main calls processChronon: the new world is created and the scan begins.
ProcessChronon ==
    /\ pc = "main"
    /\ chronon < MaxChronon
    /\ newWorld' = [createWorld(world.Size) EXCEPT !.FishBreed = world.FishBreed,
                                                   !.SharkBreed = world.SharkBreed,
                                                   !.Starve = world.Starve]
    /\ at(world, skipNil(world, 0, 0))
    /\ heap0' = heap
    /\ grid0' = world.Grid
    /\ clobbered' = FALSE
    /\ breeders' = {}
    /\ UNCHANGED <<params, world, heap, i, chronon, fasting>>

creature == world.Grid[<<x, y>>]

\* History.  The toroidal neighbours of a cell, as a set.
Torus(c, size) ==
    {<<IF c[1] = 0 THEN size - 1 ELSE c[1] - 1, c[2]>>,
     <<IF c[1] = size - 1 THEN 0 ELSE c[1] + 1, c[2]>>,
     <<c[1], IF c[2] = 0 THEN size - 1 ELSE c[2] - 1>>,
     <<c[1], IF c[2] = size - 1 THEN 0 ELSE c[2] + 1>>}

\* The creature of the scanned cell is, once its breedTimer is incremented, at
\* its species' threshold and has a destination: for a fish a neighbour nil in
\* both grids, for a shark such a neighbour or an unclaimed fish neighbour.
DueWithDestination ==
    LET c == heap[creature] IN
    /\ c.LastBreed + 1 >= (IF c.Species = Fish THEN world.FishBreed ELSE world.SharkBreed)
    /\ \E n \in Torus(<<x, y>>, world.Size) :
         /\ newWorld.Grid[n] = Nil
         /\ \/ world.Grid[n] = Nil
            \/ c.Species = Shark /\ world.Grid[n] # Nil /\ heap[world.Grid[n]].Species = Fish

noteBreeder == breeders' = IF DueWithDestination THEN breeders \cup {creature} ELSE breeders

\* "Skip if already moved"
ScanSkip ==
    /\ pc = "scan"
    /\ creature # Nil
    /\ newWorld.Grid[<<x, y>>] # Nil
    /\ Commit(Now)
    /\ UNCHANGED breeders

ScanFish ==
    /\ pc = "scan"
    /\ creature # Nil
    /\ newWorld.Grid[<<x, y>>] = Nil
    /\ heap[creature].Species = Fish
    /\ \E m \in processFish(grow(Now, creature), x, y, creature) : Commit(m)
    /\ noteBreeder

ScanShark ==
    /\ pc = "scan"
    /\ creature # Nil
    /\ newWorld.Grid[<<x, y>>] = Nil
    /\ heap[creature].Species = Shark
    /\ \E m \in processShark(grow(Now, creature), x, y, creature) : Commit(m)
    /\ noteBreeder

\* History.  The calls creature a has been through since its creation or last
\* meal; a creature placed by initializeWorld has been through none.
Fast(a) == IF a \in DOMAIN fasting THEN fasting[a] ELSE 0

\* History.  The creature at address a was in the old grid and is, in the new
\* grid, on a cell that held a fish in the old grid.
Ate(a) ==
    /\ a \in Refs(grid0)
    /\ \E c \in DOMAIN grid0 :
         newWorld.Grid[c] = a /\ grid0[c] # Nil /\ heap0[grid0[c]].Species = Fish

\* processChronon has returned: main keeps the new world (the old one is
\* garbage), counts the population and leaves the loop when all life is extinct.
MainLoop ==
    /\ pc = "done"
    /\ world' = newWorld
    /\ newWorld' = NoWorld
    /\ heap' = [a \in Refs(newWorld.Grid) |-> heap[a]]
    /\ LET n == countPopulation(newWorld, heap) IN
       IF n[1] = 0 /\ n[2] = 0
       THEN pc' = "extinct" /\ chronon' = chronon
       ELSE pc' = "main" /\ chronon' = chronon + 1
    /\ heap0' = heap'
    /\ grid0' = newWorld.Grid
    /\ clobbered' = FALSE
    /\ breeders' = {}
    /\ fasting' = [a \in Refs(newWorld.Grid) |->
                      IF a \notin Refs(grid0) \/ Ate(a) THEN 0 ELSE Fast(a) + 1]
    /\ UNCHANGED <<params, i, x, y>>

ChrononNext == ProcessChronon \/ ScanSkip \/ ScanFish \/ ScanShark \/ MainLoop

Next == InitNext \/ ChrononNext

Spec == Init /\ [][Next]_vars

\* initializeWorld alone.  Its loops draw cells until one is nil; a uniform
\* draw finds a nil cell, when there is one, with probability 1, so a step
\* that changes the state is taken whenever one stays possible.
InitSpec == Init /\ [][InitNext]_vars /\ WF_vars(InitNext)

\* ------------------------------------------------------------- properties
\* processChronon is running or has just returned: both worlds exist.
Running == pc \in {"scan", "done"}

Occupied(g) == {c \in DOMAIN g : g[c] # Nil}

\* The cells of grid g that hold a creature of species s.
Of(g, s) == {c \in Occupied(g) : heap[g[c]].Species = s}

\* C1: every write of processFish and processShark into the new grid hits a
\* cell that is nil in the new grid at that moment, so nothing placed earlier
\* in the chronon is overwritten and no creature is in two cells of the grid.
C1_WritesHitEmptyCells ==
    Running =>
        /\ ~clobbered
        /\ Cardinality(Refs(newWorld.Grid)) = Cardinality(Occupied(newWorld.Grid))

\* A chronon in which a parent moved, a child was left behind and a third
\* creature was placed.
C1_Witness ==
    /\ pc = "done"
    /\ Cardinality(Occupied(newWorld.Grid)) >= 3
    /\ Refs(newWorld.Grid) \ Refs(grid0) # {}

\* C2: a shark that moved onto a cell holding a fish in the old grid has
\* energy Starve after the chronon, and the fish that was in that cell is in
\* no cell of the new grid.
C2_MealRemovesFish ==
    pc = "done" =>
        \A c \in Of(grid0, Fish) :
            LET shark == newWorld.Grid[c] IN
            (shark \in Refs(grid0) /\ heap[shark].Species = Shark) =>
                /\ heap[shark].Energy = world.Starve
                /\ grid0[c] \notin Refs(newWorld.Grid)

\* C3: every creature of the old grid is in the new grid at its cell or at a
\* neighbour of it, or is a shark whose energy fell to 0 or below, or is a
\* fish whose cell holds a shark in the new grid.
C3_Accounted ==
    pc = "done" =>
        \A c \in Occupied(grid0) :
            LET a == grid0[c] IN
            \/ \E n \in {c} \cup Torus(c, world.Size) : newWorld.Grid[n] = a
            \/ heap[a].Species = Shark /\ heap[a].Energy <= 0
            \/ /\ heap[a].Species = Fish
               /\ c \in Of(newWorld.Grid, Shark)

\* A chronon that lost a fish to a shark, starved a shark or kept a creature
\* in place, on a grid where another creature moved.
C3_Witness ==
    /\ pc = "done"
    /\ \E c \in Of(grid0, Fish) : grid0[c] \notin Refs(newWorld.Grid)
    /\ \E c \in Occupied(grid0) : newWorld.Grid[c] # grid0[c] /\ grid0[c] \in Refs(newWorld.Grid)

\* The creatures of the new grid that the running chronon created.
Born == Refs(newWorld.Grid) \ Refs(grid0)

\* C4: for each species, the new grid holds at most the old count plus the
\* number of old creatures of the species that were due to breed (breedTimer,
\* once incremented, at the threshold) and had a destination; each of them
\* adds at most one new individual.
C4_Conservation ==
    Running =>
        \A s \in {Fish, Shark} :
            LET due == {a \in breeders : heap[a].Species = s} IN
            /\ Cardinality({a \in Born : heap[a].Species = s}) <= Cardinality(due)
            /\ Cardinality(Of(newWorld.Grid, s)) <= Cardinality(Of(grid0, s)) + Cardinality(due)

\* A chronon in which one creature bred and another one moved on without
\* breeding.
C4_Witness ==
    /\ pc = "done"
    /\ Born # {}
    /\ \E a \in Refs(grid0) \cap Refs(newWorld.Grid) : a \notin breeders

\* C5: a shark whose energy is 0 or less after the decrement is in no cell of
\* the new grid, leaves its cell nil (no child), and keeps the decremented
\* energy (no meal); a grid of size 1 with a shark of energy 1 ends empty.
C5_Starvation ==
    pc = "done" =>
        /\ \A c \in Of(grid0, Shark) :
              LET a == grid0[c] IN
              heap0[a].Energy - 1 <= 0 =>
                  /\ a \notin Refs(newWorld.Grid)
                  /\ newWorld.Grid[c] = Nil
                  /\ heap[a].Energy = heap0[a].Energy - 1
        /\ (/\ world.Size = 1
            /\ grid0[<<0, 0>>] # Nil
            /\ heap0[grid0[<<0, 0>>]].Species = Shark
            /\ heap0[grid0[<<0, 0>>]].Energy = 1) => Occupied(newWorld.Grid) = {}

\* A shark starved next to a fish, while it was due to breed.
C5_Witness ==
    /\ pc = "done"
    /\ \E c \in Of(grid0, Shark) :
          /\ heap0[grid0[c]].Energy <= 1
          /\ heap0[grid0[c]].LastBreed + 1 >= world.SharkBreed
          /\ Torus(c, world.Size) \cap Of(grid0, Fish) # {}

\* The 3x3 scenario: a lone fish at (1,1), fishBreedThreshold 0.
LoneFish ==
    /\ world.Size = 3
    /\ world.FishBreed = 0
    /\ Occupied(grid0) = {<<1, 1>>}
    /\ heap[grid0[<<1, 1>>]].Species = Fish

\* C6: a creature created by a reproduction is at its parent's old cell, has
\* the parent's species, age 0 and breedTimer 0 (a shark: energy Starve), and
\* the parent is at a neighbour of that cell with breedTimer 0; the lone fish
\* of the 3x3 scenario gives exactly two fish, the child at (1,1).
C6_Reproduction ==
    Running =>
        /\ \A c \in Occupied(newWorld.Grid) :
              LET a == newWorld.Grid[c] IN
              a \in Born =>
                  /\ grid0[c] # Nil
                  /\ heap[a].Species = heap[grid0[c]].Species
                  /\ heap[a].Age = 0
                  /\ heap[a].LastBreed = 0
                  /\ heap[a].Species = Shark => heap[a].Energy = world.Starve
                  /\ heap[grid0[c]].LastBreed = 0
                  /\ \E n \in Torus(c, world.Size) \ {c} : newWorld.Grid[n] = grid0[c]
        /\ (pc = "done" /\ LoneFish) =>
              /\ Cardinality(Occupied(newWorld.Grid)) = 2
              /\ Of(newWorld.Grid, Fish) = Occupied(newWorld.Grid)
              /\ newWorld.Grid[<<1, 1>>] \in Born

\* The 3x3 scenario after its first chronon.
C6_Witness == pc = "done" /\ chronon = 0 /\ LoneFish

\* C7: getAdjacentPositions(x, y, size) is the four cells west, east, north
\* and south of (x, y) in this order, wrapped at the edges, each inside the
\* grid; at (0,0): (size-1,0), (1 mod size,0), (0,size-1), (0,1 mod size).
C7_Adjacency ==
    pc = "scan" =>
        LET size == world.Size
            adj  == getAdjacentPositions(x, y, size)
        IN  /\ Len(adj) = 4
            /\ \A k \in 1 .. 4 : adj[k] \in Cells(size)
            /\ adj[1] = <<IF x = 0 THEN size - 1 ELSE x - 1, y>>
            /\ adj[2] = <<IF x = size - 1 THEN 0 ELSE x + 1, y>>
            /\ adj[3] = <<x, IF y = 0 THEN size - 1 ELSE y - 1>>
            /\ adj[4] = <<x, IF y = size - 1 THEN 0 ELSE y + 1>>
            /\ (x = 0 /\ y = 0) =>
                  adj = << <<size - 1, 0>>, <<1 % size, 0>>, <<0, size - 1>>, <<0, 1 % size>> >>

\* The scan is at a corner where west and south wrap, on a grid of size 3.
C7_Witness == pc = "scan" /\ world.Size = 3 /\ x = 0 /\ y = 2

\* C8: processChronon writes no cell of the grid it reads: during the scan
\* and after it, every cell of the old grid holds what it held at the call.
C8_OldGridUntouched == Running => world.Grid = grid0

\* A chronon that created a creature and left a cell of the old grid's
\* creatures nil in the new grid.
C8_Witness ==
    /\ pc = "done"
    /\ Born # {}
    /\ \E c \in Occupied(grid0) : newWorld.Grid[c] = Nil

\* C9: after processChronon no creature is referred to by the old and by the
\* new grid, and the creatures of the old grid have the age, energy and
\* breedTimer they had before the call.
C9_NoAliasing ==
    pc = "done" =>
        /\ Refs(world.Grid) \cap Refs(newWorld.Grid) = {}
        /\ \A a \in Refs(world.Grid) : heap[a] = heap0[a]

\* The requested population fits the grid.
Fits == params.NumShark + params.NumFish <= world.Size * world.Size

\* What initializeWorld leaves when the requested counts fit the grid.
C10_Placed ==
    (pc = "main" /\ chronon = 0 /\ Fits) =>
        /\ Cardinality(Of(world.Grid, Shark)) = params.NumShark
        /\ Cardinality(Of(world.Grid, Fish)) = params.NumFish
        /\ Cardinality(Refs(world.Grid)) = params.NumShark + params.NumFish
        /\ \A a \in Refs(world.Grid) :
              /\ heap[a].Age = 0
              /\ heap[a].LastBreed = 0
              /\ heap[a].Species = Shark => heap[a].Energy = params.Starve
        /\ world.FishBreed = params.FishBreed
        /\ world.SharkBreed = params.SharkBreed
        /\ world.Starve = params.Starve

\* C10: when the requested counts fit the grid, initializeWorld ends, with
\* NumShark sharks and NumFish fish on distinct cells, each of age 0 and
\* breedTimer 0, each shark with energy Starve, and the world's thresholds
\* taken from the parameters.
C10_InitializeWorld == [](C10_Placed) /\ (Fits ~> pc = "main")

\* initializeWorld has placed at least a shark and a fish on a grid of size 2.
C10_Witness ==
    /\ pc = "main"
    /\ world.Size = 2
    /\ params.NumShark >= 1
    /\ params.NumFish >= 1
    /\ Cardinality(Occupied(world.Grid)) = params.NumShark + params.NumFish

\* The counts countPopulation returns for the world processChronon returned.
C12_Counts ==
    pc = "done" =>
        LET n == countPopulation(newWorld, heap) IN
        /\ n[1] = Cardinality(Of(newWorld.Grid, Fish))
        /\ n[2] = Cardinality(Of(newWorld.Grid, Shark))
        /\ n[1] + n[2] = Cardinality(Occupied(newWorld.Grid))
        /\ (n = <<0, 0>>) <=> (Occupied(newWorld.Grid) = {})

\* main's step with the call of countPopulation: the world main holds after it
\* is the one processChronon returned, its creatures as they were.
C12_Frame ==
    pc = "done" =>
        /\ world' = newWorld
        /\ \A a \in Refs(newWorld.Grid) : heap'[a] = heap[a]

\* C12: countPopulation returns the number of cells holding a fish and the
\* number of cells holding a shark, their sum is the number of occupied cells,
\* it is (0,0) exactly for an empty grid, and the call changes neither the
\* grid nor a creature.
C12_CountPopulation == [](C12_Counts) /\ [][C12_Frame]_vars

\* A world with fish, sharks and a nil cell is counted.
C12_Witness ==
    /\ pc = "done"
    /\ Of(newWorld.Grid, Fish) # {}
    /\ Of(newWorld.Grid, Shark) # {}
    /\ Occupied(newWorld.Grid) # DOMAIN newWorld.Grid

\* The skip check of processChronon fires: the scanned cell holds a creature
\* and the same cell of the new grid is not nil.
SkipFires == pc = "scan" /\ creature # Nil /\ newWorld.Grid[<<x, y>>] # Nil

\* Position p comes before position q in the scan.
Before(p, q) == p[1] < q[1] \/ (p[1] = q[1] /\ p[2] < q[2])

\* C13 as claimed: the skip check fires only when a reproduction has placed a
\* child into the cell that is scanned now.
C13_SkipOnlyAfterChild == SkipFires => newWorld.Grid[<<x, y>>] \in Born

\* C13 as amended: the skip check fires only when a shark of the old grid,
\* scanned earlier at a neighbour, has moved onto the cell for a meal: the cell
\* holds a fish in the old grid and that shark, with energy Starve, in the new.
C13_SkipOnlyAfterMeal ==
    SkipFires =>
        LET shark == newWorld.Grid[<<x, y>>] IN
        /\ heap[creature].Species = Fish
        /\ shark \in Refs(grid0)
        /\ heap[shark].Species = Shark
        /\ heap[shark].Energy = world.Starve
        /\ \E n \in Torus(<<x, y>>, world.Size) : grid0[n] = shark /\ Before(n, <<x, y>>)

\* The skip check fires in a chronon in which a creature has reproduced.
C13_Witness == SkipFires /\ Born # {}

\* The cell of grid g that holds the creature at address a.
CellOf(g, a) == CHOOSE c \in DOMAIN g : g[c] = a

\* C14: when processChronon returns, every creature of the old grid that is
\* in the new grid is exactly one chronon older than when the call began, and
\* every creature created during the call has age 0.
C14_AgedOnce ==
    pc = "done" =>
        /\ \A a \in Refs(newWorld.Grid) \cap Refs(grid0) : heap[a].Age = heap0[a].Age + 1
        /\ \A a \in Born : heap[a].Age = 0

\* processChronon returns a grid with a creature that moved into a cell
\* scanned after its own, and with a creature created during the call.
C14_Witness ==
    /\ pc = "done"
    /\ Born # {}
    /\ \E a \in Refs(newWorld.Grid) \cap Refs(grid0) :
         Before(CellOf(grid0, a), CellOf(newWorld.Grid, a))

\* The scanned cell holds a creature that passes the skip check.
Processed == pc = "scan" /\ creature # Nil /\ newWorld.Grid[<<x, y>>] = Nil

\* Neighbours of the scanned cell that are nil in the old and in the new grid.
EmptyNeighbours ==
    {n \in Torus(<<x, y>>, world.Size) : world.Grid[n] = Nil /\ newWorld.Grid[n] = Nil}

\* Neighbours of the scanned cell that hold a fish in the old grid and are nil
\* in the new grid.
FishNeighbours ==
    {n \in Torus(<<x, y>>, world.Size) :
        /\ world.Grid[n] # Nil
        /\ heap[world.Grid[n]].Species = Fish
        /\ newWorld.Grid[n] = Nil}

\* The scanned creature is a shark that survives its decrement.
SurvivingShark == heap[creature].Species = Shark /\ heap[creature].Energy - 1 > 0

\* The scanned creature has nowhere to go.
Stuck ==
    /\ Processed
    /\ EmptyNeighbours = {}
    /\ \/ heap[creature].Species = Fish
       \/ SurvivingShark /\ FishNeighbours = {}

C15_Step ==
    Stuck =>
        /\ newWorld'.Grid = [newWorld.Grid EXCEPT ![<<x, y>>] = creature]
        /\ DOMAIN heap' = DOMAIN heap
        /\ heap'[creature].LastBreed = heap[creature].LastBreed + 1

\* C15: a fish with no neighbour empty in both grids, and a surviving shark
\* with neither such a neighbour nor an unclaimed fish neighbour, is put into
\* the new grid at its own cell; no creature is created and its LastBreed is
\* only incremented, not reset, whatever its value.
C15_StaysInPlace == [][C15_Step]_vars

\* On a grid larger than one cell a creature whose neighbours were all
\* occupied by its own species when the chronon began has stayed at its cell,
\* with its LastBreed at or above its species' threshold.
C15_Witness ==
    /\ pc \in {"scan", "done"}
    /\ world.Size > 1
    /\ \E c \in DOMAIN grid0 :
         LET a == grid0[c] IN
         /\ a # Nil
         /\ newWorld.Grid[c] = a
         /\ \A n \in Torus(c, world.Size) : grid0[n] # Nil /\ heap[grid0[n]].Species = heap[a].Species
         /\ heap[a].LastBreed = heap0[a].LastBreed + 1
         /\ heap[a].LastBreed >= (IF heap[a].Species = Fish THEN world.FishBreed
                                                           ELSE world.SharkBreed)

C16_Step ==
    (Processed /\ SurvivingShark) =>
        /\ FishNeighbours # {} =>
              /\ \E n \in FishNeighbours : newWorld'.Grid[n] = creature
              /\ newWorld'.Grid[<<x, y>>] # creature
              /\ \A n \in EmptyNeighbours : newWorld'.Grid[n] = Nil
        /\ (\E n \in EmptyNeighbours : newWorld'.Grid[n] = creature) => FishNeighbours = {}
        /\ (FishNeighbours = {} /\ EmptyNeighbours # {}) =>
              \E n \in EmptyNeighbours : newWorld'.Grid[n] = creature

\* C16: a shark that survives its decrement and has a neighbour that holds a
\* fish in the old grid and is nil in the new grid is put on such a neighbour,
\* not on an empty cell and not on its own; it is put on a neighbour nil in
\* both grids only when it has no such fish neighbour.
C16_SharkPrefersFish == [][C16_Step]_vars

\* A shark of the old grid is on a cell that held a fish, while a neighbour of
\* the cell it left is still nil in both grids.
C16_Witness ==
    /\ pc \in {"scan", "done"}
    /\ \E a \in Refs(grid0) \cap Refs(newWorld.Grid) :
         LET from == CellOf(grid0, a)
             to   == CellOf(newWorld.Grid, a)
         IN  /\ heap[a].Species = Shark
             /\ grid0[to] # Nil
             /\ heap0[grid0[to]].Species = Fish
             /\ \E e \in Torus(from, world.Size) : grid0[e] = Nil /\ newWorld.Grid[e] = Nil

\* main holds a world: the one initializeWorld filled or one processChronon
\* returned.
Between == pc \in {"main", "extinct"}

\* C17: in the world initializeWorld fills and in every world processChronon
\* returns, each shark has 1 <= Energy <= Starve and each creature has
\* 0 <= LastBreed <= Age.
C17_Ranges ==
    Between =>
        \A a \in Refs(world.Grid) :
            /\ heap[a].Species = Shark => 1 <= heap[a].Energy /\ heap[a].Energy <= world.Starve
            /\ 0 <= heap[a].LastBreed
            /\ heap[a].LastBreed <= heap[a].Age

\* After a chronon the world holds a shark below full energy and a creature
\* whose LastBreed has been reset.
C17_Witness ==
    /\ pc = "main"
    /\ chronon >= 1
    /\ \E a \in Refs(world.Grid) : heap[a].Species = Shark /\ heap[a].Energy < world.Starve
    /\ \E a \in Refs(world.Grid) : heap[a].LastBreed < heap[a].Age

\* The sharks of grid g.
Sharks(g) == {a \in Refs(g) : heap[a].Species = Shark}

\* C18: a shark is in the grid for fewer than Starve processChronon calls
\* after its creation or last meal, its energy being Starve less the number of
\* those calls; a shark created or fed during a call leaves it with energy
\* Starve.
C18_BoundedStarvation ==
    /\ Between =>
          \A a \in Sharks(world.Grid) :
              Fast(a) < world.Starve /\ heap[a].Energy = world.Starve - Fast(a)
    /\ pc = "done" =>
          \A a \in Sharks(newWorld.Grid) :
              IF a \in Born \/ Ate(a) THEN heap[a].Energy = world.Starve
              ELSE heap[a].Energy = heap0[a].Energy - 1

\* processChronon returns without a shark that had been through Starve - 1
\* calls since its last meal or creation and took none in this call, while a
\* shark that took a meal is in the new grid.
C18_Witness ==
    /\ pc = "done"
    /\ world.Starve > 1
    /\ \E a \in Refs(grid0) \ Refs(newWorld.Grid) :
         heap0[a].Species = Shark /\ Fast(a) = world.Starve - 1
    /\ \E b \in Sharks(newWorld.Grid) : Ate(b)

\* initializeWorld has returned and neither the world nor the grid that
\* processChronon is filling holds a creature of species s.
Extinct(s) ==
    /\ ~(pc \in {"placeSharks", "placeFish"})
    /\ Of(world.Grid, s) = {}
    /\ Of(newWorld.Grid, s) = {}

C19_Step ==
    /\ Extinct(Fish) => Extinct(Fish)'
    /\ Extinct(Shark) => Extinct(Shark)'
    /\ pc' = "extinct" => Occupied(world.Grid)' = {}

\* C19: once the world holds no fish, no later step of any chronon puts a
\* fish into a grid; likewise for sharks, and so for the empty grid; main
\* stops on an empty world only.
C19_ExtinctionAbsorbing == [][C19_Step]_vars

\* In a run that began with fish, processChronon has returned, after an
\* earlier chronon, from a world without fish in which sharks live on.
C19_Witness ==
    /\ pc = "done"
    /\ chronon >= 1
    /\ params.NumFish > 0
    /\ Of(grid0, Fish) = {}
    /\ Of(newWorld.Grid, Shark) # {}

\* initializeWorld is inside one of its placement loops.
Placing == pc \in {"placeSharks", "placeFish"}

\* C11: when the requested population exceeds the grid's capacity,
\* initializeWorld ends with a failure instead of hanging: as long as it is in
\* its loops it has a step that changes the state (it has no failure exit, so
\* a state of the loops without such a step is a hang).
C11_AbortsOnOverflow == (Placing /\ ~Fits) => ENABLED <<InitNext>>_vars
====
